---- MODULE Spec2Model ----
(***************************************************************************)
(* A model of the retrieval engine of ocr-embeds:                          *)
(*   - VectorStore (src/src/core/vector_db.py): an in-memory FAISS         *)
(*     IndexFlatL2 with a parallel metadata list, saved to and loaded from *)
(*     two files;                                                          *)
(*   - the search command's document-level aggregation (src/main.py);      *)
(*   - chunk_text (src/src/utils/text_processor.py).                       *)
(* The specifications share the variables: Spec drives the store and the   *)
(* search command, CrashSpec adds a crash of the process inside            *)
(* save_index, AggSpec applies the aggregation to arbitrary hit sequences, *)
(* ChunkSpec and FairChunkSpec run the loop of chunk_text.                 *)
(***************************************************************************)
EXTENDS Integers, Sequences, FiniteSets, TLC

VARIABLES
    index,        \* self.index: the vectors of the FAISS index, position i holds id i-1
    objs,         \* the heap of metadata dict objects of the running process
    metadata,     \* self.metadata: a list of references into objs
    indexFile,    \* the file at index_path:    [state, vecs]
    metaFile,     \* the file at metadata_path: [state, recs]
    pc,           \* where the process is: "run", inside save_index, or "down"
    lastOp,       \* the operation that ran last
    query_vector, \* argument of the last search
    top_k,        \* argument of the last search (k of the last search command)
    results,      \* return value of the last VectorStore.search (raw_results)
    top_docs,     \* top_docs of the last search command / aggregation
    text,         \* chunk_text: its arguments ...
    chunk_size,
    overlap,
    start,        \* ... its cursor,
    chunks,       \* its result list,
    spans,        \* the <<start, end>> slice bounds of every emitted chunk,
    cpc           \* and its position: "while" (the loop test), "body" or "done"

storeVars == <<index, objs, metadata, indexFile, metaFile, pc>>
callVars == <<lastOp, query_vector, top_k, results, top_docs>>
chunkVars == <<text, chunk_size, overlap, start, chunks, spans, cpc>>
vars == <<index, objs, metadata, indexFile, metaFile, pc, lastOp, query_vector,
          top_k, results, top_docs, text, chunk_size, overlap, start, chunks,
          spans, cpc>>

(***************************************************************************)
(* Bounds of the model and constants of the program.                       *)
(***************************************************************************)
MaxItems == 2
MaxCoord == 1
\* The top_k arguments tried: 5 is the default of search, 3 the default k of the command
TopKs == {1, 2, 5}
CommandKs == {1, 3}
dimension == 2
MaxHits == 3
MaxScore == 2
MaxK == 2
MaxTextLen == 4
MaxChunkSize == 5
MaxRunLen == 12
PreviewLen == 200
Oversample == 10
FaissNoId == -1

Min(a, b) == IF a < b THEN a ELSE b
Max(a, b) == IF a < b THEN b ELSE a

\* Python's seq[:n] for n >= 0.
Take(s, n) == SubSeq(s, 1, Min(n, Len(s)))

\* The embedding vectors the model draws from: np.ones(dimension) * c, as the tests
\* build them.  Every coordinate is a small integer, which float32 represents exactly.
Fill(c) == [i \in 1..dimension |-> c]
Vectors == {Fill(c) : c \in 0..MaxCoord}

\* np.array([vector]).astype('float32'): exact on the integers below 2^24; from
\* there on float32 holds every second integer (no vector of the model gets there).
AsFloat32(v) == [i \in DOMAIN v |-> IF v[i] < 16777216 /\ v[i] > -16777216
                                    THEN v[i] ELSE (v[i] \div 2) * 2]

\* The metadata dicts the callers build: {"filename": ..., "text": ...}
MetaArgs == {[filename |-> "match.png", text |-> <<"M", "a">>],
             [filename |-> "garbage.png", text |-> <<"G">>]}

RECURSIVE SumSq(_, _, _, _)
\* The sum over the coordinates lo..hi of the squared differences, by halves
SumSq(x, y, lo, hi) ==
    IF lo > hi THEN 0
    ELSE IF lo = hi THEN (x[lo] - y[lo]) * (x[lo] - y[lo])
    ELSE LET mid == (lo + hi) \div 2
         IN  SumSq(x, y, lo, mid) + SumSq(x, y, mid + 1, hi)

\* IndexFlatL2's score: the squared Euclidean distance.
L2Sqr(x, y) == SumSq(x, y, 1, Len(x))

(***************************************************************************)
(* faiss.IndexFlatL2.search(q, k): the k nearest stored vectors, nearest   *)
(* first, equal distances by the lower id; when fewer than k vectors are   *)
(* stored the tail is padded with id -1.                                   *)
(***************************************************************************)
\* The distance FAISS reports beside a padding id is the largest float: here, more
\* than the distance between any two vectors of the model.
PadDist == L2Sqr(Fill(0), Fill(MaxCoord)) + 1

\* id a comes before id b in the ranking, dist[i] being the distance of id i-1
Nearer(dist, a, b) ==
    \/ dist[a + 1] < dist[b + 1]
    \/ dist[a + 1] = dist[b + 1] /\ a < b

RECURSIVE Ranked(_, _)
Ranked(dist, ids) ==
    IF ids = {} THEN <<>>
    ELSE LET best == CHOOSE a \in ids : \A b \in ids \ {a} : Nearer(dist, a, b)
         IN  <<best>> \o Ranked(dist, ids \ {best})

FaissSearch(idx, q, k) ==
    LET dist == [i \in 1..Len(idx) |-> L2Sqr(idx[i], q)]
        order == Ranked(dist, 0..(Len(idx) - 1))
    IN  [i \in 1..k |->
            IF i <= Len(order)
            THEN [id |-> order[i], dist |-> dist[order[i] + 1]]
            ELSE [id |-> FaissNoId, dist |-> PadDist]]

\* Python's seq[i] for an index that may be negative
PyIndex(s, i) == IF i < 0 THEN s[Len(s) + i + 1] ELSE s[i + 1]

\* item["text"][:200] + "..."
Preview(txt) == Take(txt, PreviewLen) \o <<".", ".", ".">>

\* The filter of search's result loop, without its test for the padding id
KeepHitNoPadTest(id, n) == id < n

\* if idx != -1 and idx < len(self.metadata)
KeepHit(id, n) == id # FaissNoId /\ id < n

RECURSIVE Hits(_, _, _)
Hits(DI, recs, i) ==
    IF i > Len(DI) THEN <<>>
    ELSE IF KeepHit(DI[i].id, Len(recs)) /\ Len(recs) > 0  \* recs[id] exists
         THEN <<[filename |-> PyIndex(recs, DI[i].id).filename,
                 preview  |-> Preview(PyIndex(recs, DI[i].id).text),
                 score    |-> DI[i].dist]>> \o Hits(DI, recs, i + 1)
         ELSE Hits(DI, recs, i + 1)

\* VectorStore.search with the nearest hit last
SearchFarthestFirst(idx, recs, q, k) ==
    IF Len(idx) = 0 THEN <<>>
    ELSE LET h == Hits(FaissSearch(idx, AsFloat32(q), k), recs, 1)
         IN  [i \in 1..Len(h) |-> h[Len(h) + 1 - i]]

\* VectorStore.search(query_vector, top_k) on a store holding idx and recs
Search(idx, recs, q, k) ==
    IF Len(idx) = 0 THEN <<>>
    ELSE Hits(FaissSearch(idx, AsFloat32(q), k), recs, 1)

(***************************************************************************)
(* The aggregation of the search command: unique_docs is a dict, which     *)
(* keeps its keys in insertion order; sorted() is stable, also with        *)
(* reverse=True.                                                           *)
(***************************************************************************)
PosOf(docs, fname) ==
    IF \E i \in 1..Len(docs) : docs[i].filename = fname
    THEN CHOOSE i \in 1..Len(docs) : docs[i].filename = fname
    ELSE 0

\* The update rule of the grouping loop keeping the lower score
BetterLower(score, kept) == score < kept

\* if score > unique_docs[filename]['score']
Better(score, kept) == score > kept

\* One iteration of `for res in raw_results`
Group(docs, res) ==
    LET p == PosOf(docs, res.filename)
    IN  IF p = 0
        THEN Append(docs, [filename    |-> res.filename,
                           score       |-> res.score,
                           preview     |-> res.preview,
                           chunk_match |-> res.preview])
        ELSE IF Better(res.score, docs[p].score)
             THEN [docs EXCEPT ![p].score = res.score, ![p].preview = res.preview]
             ELSE docs

RECURSIVE UniqueDocs(_, _)
UniqueDocs(hits, n) ==
    IF n = 0 THEN <<>> ELSE Group(UniqueDocs(hits, n - 1), hits[n])

\* Put d behind every entry whose score is at least d's: a stable descending insert
InsertDesc(sorted, d) ==
    LET before == Cardinality({i \in 1..Len(sorted) : sorted[i].score >= d.score})
    IN  SubSeq(sorted, 1, before) \o <<d>> \o SubSeq(sorted, before + 1, Len(sorted))

RECURSIVE SortedDesc(_, _)
\* sorted(unique_docs.items(), key=score, reverse=True)
SortedDesc(docs, n) ==
    IF n = 0 THEN <<>> ELSE InsertDesc(SortedDesc(docs, n - 1), docs[n])

\* Steps 4 to 6 of the search command
Aggregate(hits, k) ==
    LET unique_docs == UniqueDocs(hits, Len(hits))
    IN  Take(SortedDesc(unique_docs, Len(unique_docs)), k)


(***************************************************************************)
(* VectorStore                                                             *)
(***************************************************************************)
\* self.metadata with every reference replaced by the dict it points to
MetaList == [i \in 1..Len(metadata) |-> objs[metadata[i]]]

AbsentFile == [state |-> "absent", vecs |-> <<>>, recs |-> <<>>]
TornFile == [state |-> "torn", vecs |-> <<>>, recs |-> <<>>]

\* faiss.write_index(self.index, self.index_path), completed
WrittenIndex(idx) == [state |-> "ok", vecs |-> idx, recs |-> <<>>]

\* json.dump(self.metadata, f), completed: the dicts are written by value
DumpedMetadata(list) == [state |-> "ok", vecs |-> <<>>, recs |-> list]

\* os.path.exists(self.index_path) and os.path.exists(self.metadata_path)
BothExist == indexFile.state # "absent" /\ metaFile.state # "absent"

\* faiss.read_index and json.load raise on a file that was not completely written
Readable == indexFile.state = "ok" /\ metaFile.state = "ok"

\* What a VectorStore constructed on the two paths holds: load_index
LoadedIndex == IF BothExist THEN indexFile.vecs ELSE <<>>

\* load_index reading the index file and leaving self.metadata as __init__ set it
LoadedMetadataNotRead == <<>>

LoadedMetadata == IF BothExist THEN metaFile.recs ELSE <<>>

NoCall(op) ==
    /\ lastOp' = op
    /\ query_vector' = Fill(0)
    /\ top_k' = 0
    /\ results' = <<>>
    /\ top_docs' = <<>>

\* meta["id"] = self.index.ntotal - 1, with ntotal taken after the append
AssignedId(ntotal) == ntotal - 1

\* add_item(vector, meta), meta being the dict object ref of the heap `heap`
add_item(vector, ref, heap) ==
    /\ index' = Append(index, AsFloat32(vector))
    /\ objs' = [heap EXCEPT ![ref].id = AssignedId(Len(index) + 1)]
    /\ metadata' = Append(metadata, ref)

\* add_item(vector, {"filename": fname, "text": txt}): the caller builds a new dict
AddItem ==
    /\ pc = "run"
    /\ Len(index) < MaxItems
    /\ \E vector \in Vectors, meta \in MetaArgs :
          add_item(vector, Len(objs) + 1,
                   Append(objs, [id |-> 0, filename |-> meta.filename,
                                 text |-> meta.text]))
    /\ NoCall("add_item")
    /\ UNCHANGED <<indexFile, metaFile, pc, text, chunk_size, overlap, start,
                   chunks, spans, cpc>>

\* add_item(vector, meta) with the dict object of the call before: a caller that
\* fills one dict and passes it again
AddItemSameDict ==
    /\ pc = "run"
    /\ Len(index) < MaxItems
    /\ lastOp = "add_item"
    /\ \E vector \in Vectors : add_item(vector, Len(objs), objs)
    /\ NoCall("add_item")
    /\ UNCHANGED <<indexFile, metaFile, pc, text, chunk_size, overlap, start,
                   chunks, spans, cpc>>

\* save_index(), run to its end
SaveIndex ==
    /\ pc = "run"
    /\ indexFile' = WrittenIndex(index)
    /\ metaFile' = DumpedMetadata(MetaList)
    /\ NoCall("save_index")
    /\ UNCHANGED <<index, objs, metadata, pc, text, chunk_size, overlap, start,
                   chunks, spans, cpc>>

\* load_index(), which VectorStore(index_path, metadata_path, dimension) ends with:
\* json.load builds new dicts, create_index an empty store
LoadIndex ==
    /\ pc = "run"
    /\ BothExist => Readable
    /\ index' = LoadedIndex
    /\ objs' = LoadedMetadata
    /\ metadata' = [i \in 1..Len(LoadedMetadata) |-> i]
    /\ NoCall(IF lastOp = "save_index" THEN "load_index after save_index"
                                       ELSE "load_index")
    /\ UNCHANGED <<indexFile, metaFile, pc, text, chunk_size, overlap, start,
                   chunks, spans, cpc>>

\* search(query_vector, top_k)
SearchStore ==
    /\ pc = "run"
    /\ \E q \in Vectors, k \in TopKs :
          /\ query_vector' = q
          /\ top_k' = k
          /\ results' = Search(index, MetaList, q, k)
    /\ lastOp' = "search"
    /\ top_docs' = <<>>
    /\ UNCHANGED <<storeVars, chunkVars>>

\* The search command of main.py, a process of its own: its vector_db is built from
\* the files, searched with oversampling, and the hits are aggregated
SearchCommand ==
    /\ pc = "run"
    /\ BothExist => Readable
    /\ index' = LoadedIndex
    /\ objs' = LoadedMetadata
    /\ metadata' = [i \in 1..Len(LoadedMetadata) |-> i]
    /\ \E q \in Vectors, k \in CommandKs :
          /\ query_vector' = q
          /\ top_k' = k
          /\ IF indexFile.state = "absent"
             THEN results' = <<>> /\ top_docs' = <<>>
             ELSE /\ results' = Search(LoadedIndex, LoadedMetadata, q, k * Oversample)
                  /\ top_docs' = Aggregate(results', k)
    /\ lastOp' = "search command"
    /\ UNCHANGED <<indexFile, metaFile, pc, chunkVars>>

ChunkIdle ==
    /\ text = <<>>
    /\ chunk_size = 1
    /\ overlap = 0
    /\ start = 0
    /\ chunks = <<>>
    /\ spans = <<>>
    /\ cpc = "idle"

CallIdle ==
    /\ lastOp = "init"
    /\ query_vector = Fill(0)
    /\ top_k = 0
    /\ results = <<>>
    /\ top_docs = <<>>

\* VectorStore(index_path, metadata_path, dimension) in an empty directory
StoreInit ==
    /\ index = <<>>
    /\ objs = <<>>
    /\ metadata = <<>>
    /\ indexFile = AbsentFile
    /\ metaFile = AbsentFile
    /\ pc = "run"

Init == StoreInit /\ CallIdle /\ ChunkIdle

Next ==
    \/ AddItem
    \/ AddItemSameDict
    \/ SaveIndex
    \/ LoadIndex
    \/ SearchStore
    \/ SearchCommand

Spec == Init /\ [][Next]_vars

(***************************************************************************)
(* save_index step by step, with a crash of the process at any point       *)
(* inside it.  faiss.write_index and open(path, 'w') both truncate the     *)
(* file they write before the content is there.                            *)
(***************************************************************************)
\* faiss.write_index has opened index_path
SaveWriteIndexBegin ==
    /\ pc = "run"
    /\ indexFile' = TornFile
    /\ pc' = "write_index"
    /\ NoCall("save_index")
    /\ UNCHANGED <<index, objs, metadata, metaFile, chunkVars>>

\* faiss.write_index has returned
SaveWriteIndexEnd ==
    /\ pc = "write_index"
    /\ indexFile' = WrittenIndex(index)
    /\ pc' = "index_written"
    /\ UNCHANGED <<index, objs, metadata, metaFile, callVars, chunkVars>>

\* open(self.metadata_path, 'w')
SaveOpenMetadata ==
    /\ pc = "index_written"
    /\ metaFile' = TornFile
    /\ pc' = "metadata_open"
    /\ UNCHANGED <<index, objs, metadata, indexFile, callVars, chunkVars>>

\* json.dump(self.metadata, f) and the end of the with block
SaveDumpMetadata ==
    /\ pc = "metadata_open"
    /\ metaFile' = DumpedMetadata(MetaList)
    /\ pc' = "run"
    /\ UNCHANGED <<index, objs, metadata, indexFile, callVars, chunkVars>>

\* The process dies inside save_index: its memory is gone, the files stay
Crash ==
    /\ pc \in {"write_index", "index_written", "metadata_open"}
    /\ pc' = "down"
    /\ index' = <<>>
    /\ objs' = <<>>
    /\ metadata' = <<>>
    /\ NoCall("crash")
    /\ UNCHANGED <<indexFile, metaFile, chunkVars>>

\* The next process constructs its VectorStore on the same paths
Restart ==
    /\ pc = "down"
    /\ BothExist => Readable
    /\ pc' = "run"
    /\ index' = LoadedIndex
    /\ objs' = LoadedMetadata
    /\ metadata' = [i \in 1..Len(LoadedMetadata) |-> i]
    /\ NoCall("load_index")
    /\ UNCHANGED <<indexFile, metaFile, chunkVars>>

CrashNext ==
    \/ AddItem
    \/ AddItemSameDict
    \/ SaveWriteIndexBegin
    \/ SaveWriteIndexEnd
    \/ SaveOpenMetadata
    \/ SaveDumpMetadata
    \/ Crash
    \/ Restart

CrashSpec == Init /\ [][CrashNext]_vars

(***************************************************************************)
(* Claims about the store                                                  *)
(***************************************************************************)
\* C1: after any sequence of add_item calls on a store that started empty, the
\* metadata list has as many entries as the index has vectors and metadata[i].id = i
\* for every i (positions here are 1-based, ids 0-based); the same holds for the
\* store loaded after save_index.
C1_IdsArePositions ==
    /\ Len(metadata) = Len(index)
    /\ \A i \in 1..Len(metadata) : MetaList[i].id = i - 1

\* C2: after a crash inside save_index, whenever both files exist (and are whole),
\* the index file holds as many vectors as the metadata file holds records.
C2_CrashLeavesMatchedPair ==
    (pc = "down" /\ indexFile.state = "ok" /\ metaFile.state = "ok")
        => Len(indexFile.vecs) = Len(metaFile.recs)

\* C4: save_index followed by the construction of a store on the same paths gives a
\* store with the same number of vectors, the same metadata content and the same
\* search result for every query and top_k.
C4_RoundTrip ==
    [][(lastOp = "save_index" /\ lastOp' = "load_index after save_index")
         => /\ Len(index') = Len(index)
            /\ MetaList' = MetaList
            /\ \A q \in Vectors, k \in TopKs :
                  Search(index', MetaList', q, k) = Search(index, MetaList, q, k)]_vars

C4_Witness ==
    /\ lastOp = "load_index after save_index"
    /\ Len(index) = MaxItems
    /\ Len(metadata) = MaxItems

\* The lowest score among the hits of one file
BestDistance(hits, fname) ==
    CHOOSE d \in {hits[i].score : i \in {j \in 1..Len(hits) : hits[j].filename = fname}} :
        \A i \in 1..Len(hits) : hits[i].filename = fname => d <= hits[i].score

\* C6: over the L2 index the search command keeps, for every document, the lowest
\* distance among its fetched hits and returns the documents best first: the first
\* document is the one owning the passage nearest to the query.
C6_NearestDocumentFirst ==
    (lastOp = "search command" /\ results # <<>>)
        => /\ top_docs # <<>>
           /\ top_docs[1].filename = results[1].filename
           /\ \A i \in 1..Len(top_docs) :
                 top_docs[i].score = BestDistance(results, top_docs[i].filename)
           /\ \A i \in 1..(Len(top_docs) - 1) : top_docs[i].score <= top_docs[i + 1].score

C8_HighScoreFirst ==
    (/\ lastOp = "search"
     /\ Len(index) = 2
     /\ Len(metadata) = 2
     /\ top_k >= 2
     /\ \E i \in 1..2 : index[i] = query_vector /\ index[3 - i] # query_vector)
        => /\ Len(results) = 2
           /\ \E i \in 1..2 : /\ index[i] = query_vector
                              /\ results[1].filename = MetaList[i].filename
           /\ results[1].score > results[2].score

\* C9: search returns exactly min(top_k, number of stored vectors) hits, none of them
\* a placeholder; on an empty store it returns the empty sequence.
C9_HitCount ==
    lastOp = "search"
        => /\ Len(results) = Min(top_k, Len(index))
           /\ \A i \in 1..Len(results) : results[i].score # PadDist
           /\ Len(index) = 0 => results = <<>>

C9_Witness ==
    /\ lastOp = "search"
    /\ Len(index) >= 1
    /\ top_k > Len(index)
    /\ Len(results) = Len(index)

(***************************************************************************)
(* The aggregation on its own, over arbitrary hit sequences: scores are    *)
(* read "higher is better"; the preview of the hit at position i is a text *)
(* of i characters, so that every hit is told from the others.             *)
(***************************************************************************)
HitFilenames == {"a", "b", "c"}

HitSeqs ==
    UNION {[1..n -> [filename : HitFilenames, score : 0..MaxScore]] : n \in 0..MaxHits}

AggInit ==
    /\ StoreInit
    /\ ChunkIdle
    /\ lastOp = "init"
    /\ query_vector = Fill(0)
    /\ top_docs = <<>>
    /\ top_k \in 1..MaxK
    /\ \E hs \in HitSeqs :
          results = [i \in 1..Len(hs) |->
                        [filename |-> hs[i].filename,
                         preview  |-> [j \in 1..i |-> "p"],
                         score    |-> hs[i].score]]

\* Steps 4 to 6 of the search command on raw_results = results, k = top_k
AggregateHits ==
    /\ lastOp = "init"
    /\ top_docs' = Aggregate(results, top_k)
    /\ lastOp' = "aggregate"
    /\ UNCHANGED <<storeVars, query_vector, top_k, results, chunkVars>>

AggNext == AggregateHits

AggSpec == AggInit /\ [][AggNext]_vars

HitNames(hits) == {hits[i].filename : i \in 1..Len(hits)}

\* The position of the first hit of a file
FirstHit(hits, fname) ==
    CHOOSE i \in 1..Len(hits) :
        /\ hits[i].filename = fname
        /\ \A j \in 1..(i - 1) : hits[j].filename # fname

\* The highest score among the hits of a file
BestScore(hits, fname) ==
    CHOOSE d \in 0..MaxScore :
        /\ \E i \in 1..Len(hits) : hits[i].filename = fname /\ hits[i].score = d
        /\ \A i \in 1..Len(hits) : hits[i].filename = fname => hits[i].score <= d

\* File f ranks before file g: a higher best score, or the same and seen first
RanksBefore(hits, f, g) ==
    \/ BestScore(hits, f) > BestScore(hits, g)
    \/ /\ BestScore(hits, f) = BestScore(hits, g)
       /\ FirstHit(hits, f) < FirstHit(hits, g)

\* C5: under a higher-is-better score the aggregation returns one entry per file of
\* the hits, min(k, number of files) of them, each with the file's highest score and
\* the preview of a hit of that file with that score, ordered by score descending,
\* equal scores in the order of the files' first hits; the files left out rank behind
\* every file returned.
C5_Aggregation ==
    lastOp = "aggregate"
        => /\ Len(top_docs) = Min(top_k, Cardinality(HitNames(results)))
           /\ \A i \in 1..Len(top_docs) :
                 /\ top_docs[i].filename \in HitNames(results)
                 /\ top_docs[i].score = BestScore(results, top_docs[i].filename)
                 /\ \E j \in 1..Len(results) :
                       /\ results[j].filename = top_docs[i].filename
                       /\ results[j].score = top_docs[i].score
                       /\ results[j].preview = top_docs[i].preview
                 /\ \A j \in (i + 1)..Len(top_docs) :
                       RanksBefore(results, top_docs[i].filename, top_docs[j].filename)
                 /\ \A g \in HitNames(results) \ {top_docs[j].filename : j \in 1..Len(top_docs)} :
                       RanksBefore(results, top_docs[i].filename, g)

\* The scenario of the specification: a, a with a higher score, then b with a lower
\* one, k = 2
C5_Witness ==
    /\ lastOp = "aggregate"
    /\ top_k = 2
    /\ Len(results) = 3
    /\ results[1].filename = "a" /\ results[1].score = 1
    /\ results[2].filename = "a" /\ results[2].score = 2
    /\ results[3].filename = "b" /\ results[3].score = 0
    /\ Len(top_docs) = 2
    /\ top_docs[1].filename = "a" /\ top_docs[1].score = 2
    /\ top_docs[1].preview = results[2].preview
    /\ top_docs[2].filename = "b" /\ top_docs[2].score = 0

(***************************************************************************)
(* chunk_text(text, chunk_size, overlap)                                   *)
(***************************************************************************)
\* The characters of the texts: two letters, the space and a line break
Chars == {"a", "b", " ", "\n"}
Whitespace == {" ", "\n"}

TextsUpTo(n) == UNION {[1..m -> Chars] : m \in 0..n}

\* A text of n letters without whitespace, as "A" * 1200 of the tests is one
Run(n) == [i \in 1..n |-> IF i % 2 = 1 THEN "a" ELSE "b"]

\* Python turns a slice bound i of a sequence of length n into a position in 0..n
SliceBound(i, n) == IF i < 0 THEN Max(i + n, 0) ELSE Min(i, n)

\* text[lo:hi]
Slice(t, lo, hi) ==
    LET a == SliceBound(lo, Len(t))
        b == SliceBound(hi, Len(t))
    IN  IF a >= b THEN <<>> ELSE SubSeq(t, a + 1, b)

\* text.rfind(' ', lo, hi): the highest index in text[lo:hi] holding a space, or -1
RFindSpace(t, lo, hi) ==
    LET a == SliceBound(lo, Len(t))
        b == SliceBound(hi, Len(t))
        found == {i \in a..(b - 1) : t[i + 1] = " "}
    IN  IF found = {} THEN -1 ELSE CHOOSE i \in found : \A j \in found : j <= i

\* str.strip(): without the leading and the trailing whitespace
Strip(t) ==
    LET solid == {i \in 1..Len(t) : t[i] \notin Whitespace}
    IN  IF solid = {} THEN <<>>
        ELSE SubSeq(t, CHOOSE i \in solid : \A j \in solid : i <= j,
                       CHOOSE i \in solid : \A j \in solid : j <= i)

\* The end of the chunk without the search for the last space of the window
ChunkEndAtSize(t, s, size) == s + size

\* The end of the chunk that starts at s: lines 22 to 29
ChunkEnd(t, s, size) ==
    LET end == s + size
    IN  IF end < Len(t)
        THEN LET last_space == RFindSpace(t, s, end)
             IN  IF last_space # -1 THEN last_space ELSE end
        ELSE end

\* The next value of start without the step back by the overlap
NextStartAtEnd(end, ov) == end

\* The next value of start: lines 37 to 41
NextStart(end, ov) == IF end - ov >= end THEN end ELSE end - ov

\* The longest result list the model keeps: a run that ends visits every cursor
\* value once, so it emits fewer chunks than this
ChunkCap == Max(MaxTextLen, MaxRunLen) + MaxChunkSize

\* The call chunk_text(text, chunk_size, overlap) with 0 <= overlap < chunk_size:
\* `if not text: return []`, else the loop is entered
ChunkInit ==
    /\ StoreInit
    /\ CallIdle
    /\ text \in TextsUpTo(MaxTextLen) \cup {Run(n) : n \in 1..MaxRunLen}
    /\ chunk_size \in 1..MaxChunkSize
    /\ overlap \in 0..(chunk_size - 1)
    /\ start = 0
    /\ chunks = <<>>
    /\ spans = <<>>
    /\ cpc = IF text = <<>> THEN "done" ELSE "while"

\* while start < text_len
ChunkWhile ==
    /\ cpc = "while"
    /\ cpc' = IF start < Len(text) THEN "body" ELSE "done"
    /\ UNCHANGED <<storeVars, callVars, text, chunk_size, overlap, start, chunks, spans>>

\* One pass through the body of the loop
ChunkBody ==
    /\ cpc = "body"
    /\ LET end == ChunkEnd(text, start, chunk_size)
           chunk == Strip(Slice(text, start, end))
       IN  /\ IF chunk # <<>> /\ Len(chunks) < ChunkCap
              THEN /\ chunks' = Append(chunks, chunk)
                   /\ spans' = Append(spans, <<start, end>>)
              ELSE UNCHANGED <<chunks, spans>>
           /\ start' = NextStart(end, overlap)
    /\ cpc' = "while"
    /\ UNCHANGED <<storeVars, callVars, text, chunk_size, overlap>>

ChunkNext ==
    \/ ChunkWhile
    \/ ChunkBody

ChunkSpec == ChunkInit /\ [][ChunkNext]_vars

\* The loop is sequential code: it keeps running while it can
FairChunkSpec == ChunkSpec /\ WF_vars(ChunkNext)

\* C3: for every text and every 0 <= overlap < chunk_size the loop of chunk_text
\* ends: the cursor reaches the length of the text and the chunks are returned.
C3_Terminates == <>(cpc = "done")

\* C10: a text shorter than chunk_size with a non-whitespace character gives exactly
\* one chunk, the stripped text.
C10_ShortTextOneChunk ==
    (cpc = "done" /\ Len(text) < chunk_size /\ Strip(text) # <<>>)
        => chunks = <<Strip(text)>>

\* Position p of text lies strictly inside a word: between two adjacent characters
\* that are both not the space
InsideWord(p) ==
    /\ 0 < p
    /\ p < Len(text)
    /\ text[p] # " "
    /\ text[p + 1] # " "

\* The window text[s : s + chunk_size] of a chunk that starts at s holds a space
WindowHasSpace(s) ==
    \E i \in 1..Len(Slice(text, s, s + chunk_size)) :
        Slice(text, s, s + chunk_size)[i] = " "

\* C11 as claimed: of every emitted chunk text[start:end] whose window holds a space,
\* neither the start nor the end lies strictly inside a word.
C11_NoBoundaryInsideWord ==
    cpc = "done"
        => \A n \in 1..Len(spans) :
              WindowHasSpace(spans[n][1])
                 => ~InsideWord(spans[n][1]) /\ ~InsideWord(spans[n][2])

\* C11 as amended: of every emitted chunk text[start:end] whose window holds a space,
\* the end does not lie strictly inside a word.
C11_NoEndInsideWord ==
    \A n \in 1..Len(spans) :
        WindowHasSpace(spans[n][1]) => ~InsideWord(spans[n][2])

\* A returned chunk whose end was moved back to the last space of its window, off a
\* position inside a word
C11_Witness ==
    /\ cpc = "done"
    /\ \E n \in 1..Len(spans) :
          /\ WindowHasSpace(spans[n][1])
          /\ spans[n][2] < spans[n][1] + chunk_size
          /\ InsideWord(spans[n][1] + chunk_size)
          /\ text[spans[n][2] + 1] = " "

\* ceil(a / b) for a >= 0 and b >= 1
CeilDiv(a, b) == (a + b - 1) \div b

NoWhitespace(t) == \A i \in 1..Len(t) : t[i] \notin Whitespace

\* C12: for a text of L >= 1 characters without whitespace and 0 < overlap <
\* chunk_size, chunk_text returns ceil(L / (chunk_size - overlap)) chunks, the k-th
\* (from 0) being text[k * (chunk_size - overlap) : k * (chunk_size - overlap) +
\* chunk_size]; on the way there the cursor stands at (chunk_size - overlap) times
\* the number of chunks emitted.
C12_ChunkCount ==
    (Len(text) >= 1 /\ NoWhitespace(text) /\ overlap > 0 /\ cpc # "idle")
        => LET step == chunk_size - overlap
           IN  /\ start = Len(chunks) * step
               /\ Len(chunks) <= CeilDiv(Len(text), step)
               /\ \A k \in 0..(Len(chunks) - 1) :
                     chunks[k + 1] = Slice(text, k * step, k * step + chunk_size)
               /\ cpc = "done" => Len(chunks) = CeilDiv(Len(text), step)

\* The test of the repository scaled by 100: 12 letters, chunk_size 5, overlap 1
\* give 3 chunks
C12_Witness ==
    /\ cpc = "done"
    /\ text = Run(12)
    /\ chunk_size = 5
    /\ overlap = 1
    /\ Len(chunks) = 3

====
